---- MODULE Spec2Model ----
(***************************************************************************)
(* A model of the simple DCA strategy: the LiveUpdater (streaming          *)
(* ingester), the DcaDecider, the LiveExecutor and the EopsLiveExchange    *)
(* REST client, wired through the event bus.                               *)
(***************************************************************************)
EXTENDS Integers, Sequences, FiniteSets, TLC

VARIABLES
    params,         \* STRATEGY_PARAMS handed over by the host (fixed after Init)
    active,         \* the hosting strategy's active flag, polled by the updater
    pc,             \* where _ws_loop stands
    wsOpen,         \* whether the websocket of the "async with" block is open
    connSubs,       \* subscribe messages sent on the current connection
    msg,            \* the inbound message the receive loop holds (or NoMsg)
    msgStale,       \* the held message was received with the flag already cleared
    wsPublished,    \* events _process_ws_message put on the bus for msg
    wsLog,          \* what _process_ws_message logged for msg
    delivered,      \* messages the exchange has delivered so far
    sub_msg,        \* the args of the last subscribe message sent (or <<>>)
    consecFails,    \* connection cycles failed since a message last arrived (saturating)
    subsAfterClear, \* subscribe messages sent with the flag cleared (saturating)
    tickersSeen,    \* well-shaped Ticker messages handled by _process_ws_message
    published,      \* events put on the bus so far, per kind
    deciderQ,       \* the Decider's subscription queue (MARKET events)
    executorQ,      \* the Executor's subscription queue (ORDER events)
    tick_count,     \* DcaDecider.tick_count
    buy_interval,   \* DcaDecider.buy_interval
    buy_amount,     \* DcaDecider.buy_amount
    symbol,         \* DcaDecider.symbol
    dProcessed,     \* MARKET events passed to DcaDecider.process
    dAlive,         \* the Decider's consuming loop has not been left by an exception
    eProcessed,     \* ORDER events passed to LiveExecutor.process
    eAlive,         \* the Executor's consuming loop has not been left by an exception
    calls,          \* create_market_order invocations made so far
    lastCall,       \* the last invocation: its arguments and how it ended
    failedBefore,   \* an invocation before the last one raised or returned {}
    exParams,       \* EXCHANGE_PARAMS handed to EopsLiveExchange (fixed after Init)
    exState,        \* the exchange client: "new", "ready" or "ValueError"
    now,            \* int(time.time()), the wall clock in whole seconds
    lastRequest,    \* the last HTTP request the client put on the wire
    sent,           \* HTTP requests the client has put on the wire so far
    probe,          \* how the last connect() ended: "none", "ok" or "raised"
    signed          \* the last direct call of _get_auth_headers: arguments and result

ingesterVars == <<pc, wsOpen, connSubs, msg, msgStale, wsPublished,
                  wsLog, delivered, sub_msg, consecFails, subsAfterClear, tickersSeen>>
busVars      == <<published, deciderQ, executorQ>>
deciderVars  == <<tick_count, buy_interval, buy_amount, symbol, dProcessed, dAlive>>
executorVars == <<eProcessed, eAlive, calls, lastCall, failedBefore>>
exchangeVars == <<exParams, exState, now, lastRequest, sent, probe, signed>>
vars == <<params, active, ingesterVars, busVars, deciderVars, executorVars, exchangeVars>>

(***************************************************************************)
(* Bounds of the model.                                                    *)
(***************************************************************************)
\* inbound messages the exchange delivers in one run
MaxDelivered == 3
\* elements in one OrderUpdate batch
MaxBatch == 2
\* consecutive failures counted before the counter saturates
MaxFails == 3
\* HTTP requests made by direct calls of the exchange client in one run
MaxRequests == 2
\* the second at which the wall clock stops
MaxClock == 11

(***************************************************************************)
(* Program constants.  Amounts are counted in hundredths: 0.01 is 1.       *)
(***************************************************************************)
DefaultBuyIntervalTicks == 5
DefaultBuyAmount        == 1

NoneVal == "None"     \* Python's None
Absent  == "absent"   \* a member that a JSON object does not hold

\* dict.get(key, default): a mapping is a function on the keys it holds
Get(d, key, default) == IF key \in DOMAIN d THEN d[key] ELSE default

\* Python truthiness of a string-or-None parameter, as all([...]) tests it
Truthy(v) == v \notin {NoneVal, ""}

Min(a, b) == IF a < b THEN a ELSE b

(***************************************************************************)
(* Configurations the host may hand over.                                  *)
(***************************************************************************)
Param(iv, amt) ==
    [ws_url |-> "wss://x", jwt |-> "tok", symbol |-> "BTC-USD",
     buy_interval_ticks |-> iv, buy_amount |-> amt]

\* d without the key k
Without(d, k) == [x \in DOMAIN d \ {k} |-> d[x]]

ParamChoices ==
    { Param(1, 1), Param(2, 2), Param(3, 2), Param(0, 1),
      Without(Without(Param(1, 1), "buy_interval_ticks"), "buy_amount"),
      Without(Param(1, 1), "symbol"),
      Without(Param(1, 1), "ws_url"),
      Without(Param(1, 1), "jwt") }

(***************************************************************************)
(* Events and the bus.                                                     *)
(***************************************************************************)
Event(type, data) == [type |-> type, data |-> data]

EventKinds == {"MARKET", "ORDER", "FILL"}

CountKind(evs, k) == Len(SelectSeq(evs, LAMBDA e : e.type = k))

\* subscribed_events of the two consumers
DeciderSubscribed  == {"MARKET"}
ExecutorSubscribed == {"ORDER"}

\* event_bus.put of each event of evs, in order, as one subscriber sees it:
\* the events its filter matches arrive at the tail of its queue q.
Deliver(q, evs, subscribed) == q \o SelectSeq(evs, LAMBDA e : e.type \in subscribed)

\* The count of events put on the bus, per kind, after evs were put.
Counted(evs) == [k \in EventKinds |-> published[k] + CountKind(evs, k)]

(***************************************************************************)
(* Inbound websocket messages.  A message is described by what json.loads  *)
(* makes of it: whether it parses, whether the result is a JSON object,    *)
(* its event_type, and its "data" member (absent, null, a quote mapping or *)
(* a list of batch elements).                                              *)
(***************************************************************************)
Prices   == {100, 101}
Statuses == {"filled", "partially_filled", "open"}

\* One element of an OrderUpdate batch: an order object, or something that
\* is not a JSON object (a string, a number).
OrderObj(s) == [object |-> TRUE, status |-> s]
JunkElem    == [object |-> FALSE, status |-> Absent]
BatchElems  == {OrderObj(s) : s \in Statuses} \cup {JunkElem}

Batches == UNION {[1..n -> BatchElems] : n \in 0..MaxBatch}

RawMsg(kind, et, data, quote, orders) ==
    [kind |-> kind, event_type |-> et, data |-> data, quote |-> quote, orders |-> orders]

NoQuote       == [price |-> 0]   \* placeholder where a message holds no quote
NonJsonMsg    == RawMsg("text", Absent, Absent, NoQuote, <<>>)
NonObjectMsg  == RawMsg("json", Absent, Absent, NoQuote, <<>>)
OtherMsg      == RawMsg("object", "Heartbeat", Absent, NoQuote, <<>>)
TickerMsg(p)  == RawMsg("object", "Ticker", "quote", [price |-> p], <<>>)
TickerNoData  == RawMsg("object", "Ticker", Absent, NoQuote, <<>>)
BatchMsg(b)   == RawMsg("object", "OrderUpdate", "list", NoQuote, b)
BatchNoData   == RawMsg("object", "OrderUpdate", Absent, NoQuote, <<>>)
BatchNullData == RawMsg("object", "OrderUpdate", "null", NoQuote, <<>>)

NoMsg == RawMsg("none", Absent, Absent, NoQuote, <<>>)   \* no message held

Messages ==
    {NonJsonMsg, NonObjectMsg, OtherMsg, TickerNoData, BatchNoData, BatchNullData}
    \cup {TickerMsg(p) : p \in Prices}
    \cup {BatchMsg(b) : b \in Batches}

(***************************************************************************)
(* LiveUpdater._process_ws_message                                         *)
(***************************************************************************)
\* A test that lets only full fills through
FillStatuses_FilledOnly == {"filled"}

\* Line 82: the statuses that make a FILL event
FillStatuses == {"filled", "partially_filled"}

\* The for loop over the batch: an element that is no JSON object makes
\* order_data.get raise, which ends the loop; what was put before stays put.
RECURSIVE ScanOrders(_)
ScanOrders(os) ==
    IF os = <<>> THEN [events |-> <<>>, raised |-> FALSE]
    ELSE IF ~Head(os).object THEN [events |-> <<>>, raised |-> TRUE]
    ELSE LET rest == ScanOrders(Tail(os))
             fill == IF Head(os).status \in FillStatuses
                     THEN <<Event("FILL", Head(os))>> ELSE <<>>
         IN  [events |-> fill \o rest.events, raised |-> rest.raised]

\* A Ticker branch that puts the event twice
TickerBranch_PutTwice(m) ==
    IF m.data = Absent THEN [events |-> <<>>, raised |-> TRUE]
    ELSE [events |-> <<Event("MARKET", m.quote), Event("MARKET", m.quote)>>,
          raised |-> FALSE]

\* Lines 73-77, the Ticker branch: data['data'] raises KeyError when the
\* message holds no "data", else one MARKET event carries it.
TickerBranch(m) ==
    IF m.data = Absent THEN [events |-> <<>>, raised |-> TRUE]
    ELSE [events |-> <<Event("MARKET", m.quote)>>, raised |-> FALSE]

\* Lines 79-87, the OrderUpdate branch: data.get("data", []) is iterated;
\* iterating None raises TypeError.
OrderUpdateBranch(m) ==
    IF m.data = "null" THEN [events |-> <<>>, raised |-> TRUE]
    ELSE ScanOrders(m.orders)

\* The events the handler puts on the bus for message m, and what it logs.
ProcessWsMessage(m) ==
    IF m.kind = "text" THEN [events |-> <<>>, log |-> "warning"]
    ELSE IF m.kind # "object" THEN [events |-> <<>>, log |-> "error"]
    ELSE LET r == IF m.event_type = "Ticker" THEN TickerBranch(m)
                  ELSE IF m.event_type = "OrderUpdate" THEN OrderUpdateBranch(m)
                  ELSE [events |-> <<>>, raised |-> FALSE]
         IN  [events |-> r.events, log |-> IF r.raised THEN "error" ELSE "none"]

(***************************************************************************)
(* LiveUpdater._ws_loop                                                    *)
(***************************************************************************)
\* The exceptions the two except clauses of the loop tell apart.
ConnErrors    == {"ConnectionClosed", "ConnectionRefusedError"}
WsExceptions  == ConnErrors \cup {"Exception"}

\* A loop without the catch-all clause: an unexpected exception leaves it
WsLoopHandler_NoCatchAll(exc) == IF exc \in ConnErrors THEN "backoff" ELSE "done"

\* A handler that goes round the loop without sleeping
WsLoopHandler_NoSleep(exc) == "check"

\* Where the loop goes when exc is raised inside the try block: both except
\* clauses log and sleep, and the while loop goes round again.
WsLoopHandler(exc) ==
    IF exc \in ConnErrors THEN "backoff"   \* except (ConnectionClosed, ConnectionRefusedError)
    ELSE "backoff"                         \* except Exception

\* The test of "while self.active"
WhileActive(flag) == IF flag THEN "connecting" ELSE "done"

\* A receive loop that does not test the flag
BreakIfInactive_NoTest(flag) == "processing"

\* The test of "if not self.active: break" in the receive loop
BreakIfInactive(flag) == IF ~flag THEN "check" ELSE "processing"

\* A loop that starts to listen without sending the subscribe message
AfterHandshake_NoSubscribe == "receiving"

\* Lines 39-51: once the handshake of websockets.connect succeeded, the
\* subscribe message is built and sent before the receive loop is entered.
AfterHandshake == "connected"

SubscribeArgs(sym) == <<"tickers:" \o sym, "private:orders">>

\* A with block whose exit leaves the websocket as it is
LeaveWith_NoClose ==
    /\ wsOpen' = wsOpen
    /\ msg' = NoMsg
    /\ msgStale' = FALSE
    /\ wsPublished' = <<>>
    /\ wsLog' = "none"

\* Leaving the "async with" block, by an exception or by the end of its body,
\* closes the websocket; the message the loop held is gone.
LeaveWith ==
    /\ wsOpen' = FALSE
    /\ msg' = NoMsg
    /\ msgStale' = FALSE
    /\ wsPublished' = <<>>
    /\ wsLog' = "none"

Raise(exc) ==
    /\ pc' = WsLoopHandler(exc)
    /\ consecFails' = Min(consecFails + 1, MaxFails)
    /\ LeaveWith

\* Lines 26-32: the required parameters are read and tested.
Start ==
    /\ pc = "start"
    /\ pc' = IF /\ Truthy(Get(params, "ws_url", NoneVal))
                /\ Truthy(Get(params, "jwt", NoneVal))
                /\ Truthy(Get(params, "symbol", NoneVal))
             THEN "check" ELSE "done"
    /\ UNCHANGED <<params, active, wsOpen, connSubs, msg, msgStale,
                   wsPublished, wsLog, delivered, sub_msg, consecFails, subsAfterClear,
                   tickersSeen, busVars, deciderVars, executorVars, exchangeVars>>

\* Line 37: while self.active
LoopCheck ==
    /\ pc = "check"
    /\ pc' = WhileActive(active)
    /\ UNCHANGED <<params, active, wsOpen, connSubs, msg, msgStale,
                   wsPublished, wsLog, delivered, sub_msg, consecFails, subsAfterClear,
                   tickersSeen, busVars, deciderVars, executorVars, exchangeVars>>

\* Line 39: the handshake succeeds
ConnectOk ==
    /\ pc = "connecting"
    /\ pc' = AfterHandshake
    /\ wsOpen' = TRUE
    /\ connSubs' = 0
    /\ UNCHANGED <<params, active, msg, msgStale, wsPublished, wsLog, delivered, sub_msg,
                   consecFails, subsAfterClear, tickersSeen, busVars, deciderVars, executorVars, exchangeVars>>

\* Line 39: websockets.connect raises
ConnectFail ==
    /\ pc = "connecting"
    /\ \E exc \in WsExceptions : Raise(exc)
    /\ UNCHANGED <<params, active, connSubs, delivered, sub_msg,
                   subsAfterClear, tickersSeen, busVars, deciderVars, executorVars, exchangeVars>>

\* Lines 43-52: the subscribe message is sent
SendSubscribe ==
    /\ pc = "connected"
    /\ pc' = "receiving"
    /\ sub_msg' = SubscribeArgs(params.symbol)
    /\ connSubs' = connSubs + 1
    /\ subsAfterClear' = IF active THEN subsAfterClear ELSE Min(subsAfterClear + 1, 2)
    /\ UNCHANGED <<params, active, wsOpen, msg, msgStale, wsPublished,
                   wsLog, delivered, consecFails, tickersSeen, busVars, deciderVars,
                   executorVars, exchangeVars>>

\* Line 51: websocket.send raises because the connection is already gone
SendFail ==
    /\ pc = "connected"
    /\ Raise("ConnectionClosed")
    /\ UNCHANGED <<params, active, connSubs, delivered, sub_msg,
                   subsAfterClear, tickersSeen, busVars, deciderVars, executorVars, exchangeVars>>

\* Line 55: the iterator yields the next inbound message
RecvMessage ==
    /\ pc = "receiving"
    /\ delivered < MaxDelivered
    /\ \E m \in Messages : msg' = m
    /\ msgStale' = ~active
    /\ delivered' = delivered + 1
    /\ consecFails' = 0
    /\ pc' = "gotmsg"
    /\ UNCHANGED <<params, active, wsOpen, connSubs, wsPublished, wsLog, sub_msg,
                   subsAfterClear, tickersSeen, busVars, deciderVars,
                   executorVars, exchangeVars>>

\* Line 55: the server closed the connection normally, the iteration ends
\* and so does the body of the with block; the while loop goes round.
RecvClosedOk ==
    /\ pc = "receiving"
    /\ pc' = "check"
    /\ LeaveWith
    /\ UNCHANGED <<params, active, connSubs, delivered, sub_msg,
                   consecFails, subsAfterClear, tickersSeen, busVars, deciderVars,
                   executorVars, exchangeVars>>

\* Line 55: the iterator raises (abnormal closure, or anything else)
RecvError ==
    /\ pc = "receiving"
    /\ \E exc \in {"ConnectionClosed", "Exception"} : Raise(exc)
    /\ UNCHANGED <<params, active, connSubs, delivered, sub_msg,
                   subsAfterClear, tickersSeen, busVars, deciderVars, executorVars, exchangeVars>>

\* Lines 56-57: if not self.active: break
LoopBodyCheck ==
    /\ pc = "gotmsg"
    /\ pc' = BreakIfInactive(active)
    /\ IF pc' = "check"
       THEN LeaveWith
       ELSE UNCHANGED <<wsOpen, msg, msgStale, wsPublished, wsLog>>
    /\ UNCHANGED <<params, active, connSubs, delivered, sub_msg,
                   consecFails, subsAfterClear, tickersSeen, busVars, deciderVars,
                   executorVars, exchangeVars>>

\* Line 58: self._process_ws_message(message)
ProcessMessage ==
    /\ pc = "processing"
    /\ LET r == ProcessWsMessage(msg) IN
         /\ wsPublished' = r.events
         /\ wsLog' = r.log
         /\ published' = Counted(r.events)
         /\ deciderQ' = Deliver(deciderQ, r.events, DeciderSubscribed)
         /\ executorQ' = Deliver(executorQ, r.events, ExecutorSubscribed)
    /\ tickersSeen' = IF msg.event_type = "Ticker" /\ msg.data # Absent
                      THEN tickersSeen + 1 ELSE tickersSeen
    /\ pc' = "processed"
    /\ UNCHANGED <<params, active, wsOpen, connSubs, msg, msgStale, delivered, sub_msg,
                   consecFails, subsAfterClear, deciderVars, executorVars, exchangeVars>>

\* Lines 58 to 55: the handler has returned, the loop awaits the next message
LoopBack ==
    /\ pc = "processed"
    /\ pc' = "receiving"
    /\ msg' = NoMsg
    /\ msgStale' = FALSE
    /\ wsPublished' = <<>>
    /\ wsLog' = "none"
    /\ UNCHANGED <<params, active, wsOpen, connSubs, delivered, sub_msg, consecFails,
                   subsAfterClear, tickersSeen, busVars, deciderVars, executorVars, exchangeVars>>

\* Lines 62 and 65: asyncio.sleep(5) is over
BackoffDone ==
    /\ pc = "backoff"
    /\ pc' = "check"
    /\ UNCHANGED <<params, active, wsOpen, connSubs, msg, msgStale,
                   wsPublished, wsLog, delivered, sub_msg, consecFails, subsAfterClear,
                   tickersSeen, busVars, deciderVars, executorVars, exchangeVars>>

\* The hosting strategy clears the flag.
Deactivate ==
    /\ active
    /\ active' = FALSE
    /\ UNCHANGED <<params, ingesterVars, busVars, deciderVars, executorVars, exchangeVars>>

(***************************************************************************)
(* DcaDecider                                                              *)
(***************************************************************************)
\* The ORDER event process builds (lines 118-125)
OrderEvent(sym, amt) == Event("ORDER", [symbol |-> sym, side |-> "buy", amount |-> amt])

\* The interval test made on the count before the increment
IntervalReached_BeforeIncrement(tc, iv) == (tc - 1) % iv = 0

\* Line 116: the test that the buy interval is reached (iv is not 0)
IntervalReached(tc, iv) == tc % iv = 0

\* A process that starts the count again once it has put an order
DcaDeciderProcess_ResetOnOrder(tc, iv, amt, sym, event) ==
    LET tc1 == tc + 1 IN
    IF iv = 0 THEN [tick_count |-> tc1, raised |-> TRUE, events |-> <<>>]
    ELSE IF IntervalReached(tc1, iv)
         THEN [tick_count |-> 0, raised |-> FALSE, events |-> <<OrderEvent(sym, amt)>>]
         ELSE [tick_count |-> tc1, raised |-> FALSE, events |-> <<>>]

\* process(event) on a Decider with tick_count tc, buy_interval iv,
\* buy_amount amt and symbol sym: the new tick_count, whether the modulo
\* raised ZeroDivisionError, and the events put on the bus.
DcaDeciderProcess(tc, iv, amt, sym, event) ==
    LET tc1 == tc + 1 IN
    IF iv = 0 THEN [tick_count |-> tc1, raised |-> TRUE, events |-> <<>>]
    ELSE [tick_count |-> tc1, raised |-> FALSE,
          events |-> IF IntervalReached(tc1, iv) THEN <<OrderEvent(sym, amt)>> ELSE <<>>]

\* The consuming loop hands the Decider the next MARKET event of its queue.
DeciderProcess ==
    /\ dAlive
    /\ deciderQ # <<>>
    /\ LET r == DcaDeciderProcess(tick_count, buy_interval, buy_amount, symbol,
                                  Head(deciderQ)) IN
         /\ tick_count' = r.tick_count
         /\ dAlive' = ~r.raised
         /\ published' = Counted(r.events)
         /\ deciderQ' = Deliver(Tail(deciderQ), r.events, DeciderSubscribed)
         /\ executorQ' = Deliver(executorQ, r.events, ExecutorSubscribed)
    /\ dProcessed' = dProcessed + 1
    /\ UNCHANGED <<params, active, ingesterVars, buy_interval, buy_amount, symbol,
                   executorVars, exchangeVars>>

(***************************************************************************)
(* EopsLiveExchange: construction and _get_auth_headers                    *)
(***************************************************************************)
\* EXCHANGE_PARAMS the host may hand over
FullCreds == [base_url |-> "https://x", api_key |-> "key", secret_key |-> "secret"]

CredChoices ==
    { FullCreds,
      Without(FullCreds, "base_url"),
      Without(FullCreds, "api_key"),
      Without(FullCreds, "secret_key"),
      [FullCreds EXCEPT !.api_key = ""] }

\* Lines 23-25: the attributes __init__ reads from the parameters
Self(p) == [ base_url   |-> Get(p, "base_url", NoneVal),
             api_key    |-> Get(p, "api_key", NoneVal),
             secret_key |-> Get(p, "secret_key", NoneVal) ]

\* Lines 27-28: __init__ raises ValueError unless all three are truthy
Constructed(p) ==
    IF /\ Truthy(Self(p).base_url)
       /\ Truthy(Self(p).api_key)
       /\ Truthy(Self(p).secret_key)
    THEN "ready" ELSE "ValueError"

\* str(n) of a natural number, digit by digit
Digit == <<"0", "1", "2", "3", "4", "5", "6", "7", "8", "9">>

RECURSIVE Str(_)
Str(n) == IF n < 10 THEN Digit[n + 1] ELSE Str(n \div 10) \o Digit[(n % 10) + 1]

\* A method name is given letter by letter, so that upper() is computed.
Letters == <<"e", "g", "o", "p", "s", "t">>
Capitals == <<"E", "G", "O", "P", "S", "T">>

UpperChar(c) ==
    IF \E i \in 1..Len(Letters) : Letters[i] = c
    THEN Capitals[CHOOSE i \in 1..Len(Letters) : Letters[i] = c]
    ELSE c

RECURSIVE Upper(_)
Upper(cs) == IF cs = <<>> THEN "" ELSE UpperChar(Head(cs)) \o Upper(Tail(cs))

\* A pre-hash string that leaves the path out
PreHash_NoPath(timestamp, method, path, body_str) ==
    timestamp \o Upper(method) \o body_str

\* Line 39: f"{timestamp}{method.upper()}{path}{body_str}"
PreHash(timestamp, method, path, body_str) ==
    timestamp \o Upper(method) \o path \o body_str

\* Lines 41-45: the hex digest of HMAC-SHA256 keyed by key over message.
\* The digest stands for the pair it was computed from: two digests are
\* equal exactly when key and message are (no collision of the hash).
HmacSha256Hex(key, message) == [hmac_key |-> key, message |-> message]

\* _get_auth_headers(method, path, body_str) on the client ex, called when
\* the clock reads t.
GetAuthHeaders(ex, method, path, body_str, t) ==
    LET timestamp == Str(t)
        prehash_string == PreHash(timestamp, method, path, body_str)
        signature == HmacSha256Hex(ex.secret_key, prehash_string)
    IN  [h \in {"Content-Type", "X-API-KEY", "X-API-TIMESTAMP", "X-API-SIGN"} |->
           CASE h = "Content-Type"    -> "application/json"
             [] h = "X-API-KEY"       -> ex.api_key
             [] h = "X-API-TIMESTAMP" -> timestamp
             [] h = "X-API-SIGN"      -> signature]

\* A request as requests puts it on the wire
NoHeaders == [h \in {} |-> ""]
Request(method, url, path, headers, data) ==
    [method |-> method, url |-> url, path |-> path, headers |-> headers, data |-> data]
NoRequest == Request(NoneVal, NoneVal, NoneVal, NoHeaders, "")

\* Lines 58-59: connect() gets the instrument listing, with no headers of its own
ProbePath == "/api/v1/market/instruments"
ConnectRequest(ex) == Request("GET", ex.base_url \o ProbePath, ProbePath, NoHeaders, "")

\* json.dumps of a string-or-None member
JsonStr(v) == IF v = NoneVal THEN "null" ELSE "\"" \o v \o "\""

\* Line 75: json.dumps(body), members in insertion order
JsonDumps(body) ==
    "{\"instrument_id\": " \o JsonStr(body.instrument_id)
    \o ", \"side\": " \o JsonStr(body.side)
    \o ", \"order_type\": " \o JsonStr(body.order_type)
    \o ", \"quantity\": " \o JsonStr(body.quantity) \o "}"

\* Lines 68 and 75-79: the POST of create_market_order for body, made when
\* the clock reads t: the same body_str is signed and sent.
OrderPath == "/api/v1/trade/orders"
OrderRequest(ex, body, t) ==
    LET body_str == JsonDumps(body)
        headers == GetAuthHeaders(ex, <<"P", "O", "S", "T">>, OrderPath, body_str, t)
    IN  Request("POST", ex.base_url \o OrderPath, OrderPath, headers, body_str)

(***************************************************************************)
(* EopsLiveExchange.create_market_order                                    *)
(***************************************************************************)
\* What session.post, raise_for_status and response.json can end in.
\* "OtherError" stands for an exception that is no requests.RequestException.
RequestExceptions == {"ConnectionError", "Timeout", "HTTPError", "JSONDecodeError"}
PostOutcomes      == {"ok", "OtherError"} \cup RequestExceptions

\* A handler that names requests.ConnectionError only
CaughtByClient_ConnectionOnly(outcome) == outcome \in {"ConnectionError"}

\* Line 82: except requests.RequestException
CaughtByClient(outcome) == outcome \in RequestExceptions

\* str(amount), for amounts counted in hundredths
QuantityStr(amt) ==
    CASE amt = 1 -> "0.01"
      [] amt = 2 -> "0.02"
      [] OTHER   -> "0.00"

\* The call ends in outcome: the body that was posted, whether the call
\* raises to its caller, and the value it returns when it does not.
CreateMarketOrder(sym, side, amt, outcome) ==
    [ body   |-> [instrument_id |-> sym, side |-> side, order_type |-> "market",
                  quantity |-> QuantityStr(amt)],
      raised |-> outcome # "ok" /\ ~CaughtByClient(outcome),
      value  |-> IF outcome = "ok" THEN "ack" ELSE "empty" ]

(***************************************************************************)
(* LiveExecutor                                                            *)
(***************************************************************************)
\* A process without the try block
CaughtByExecutor_NoTry(raised) == FALSE

\* Line 149: except Exception catches whatever the call raised.
CaughtByExecutor(raised) == TRUE

\* A process that calls again when the first call returned {}
CallsPerOrder_RetryOnEmpty(result) == IF result = "empty" THEN 2 ELSE 1

\* Lines 143-147: process invokes create_market_order once for one event,
\* whatever the call ends in.
CallsPerOrder(result) == 1

\* process(event) when the exchange call ends in outcome: the calls made,
\* what is logged last, and whether an exception leaves process.
LiveExecutorProcess(event, outcome) ==
    LET d == event.data
        r == CreateMarketOrder(d.symbol, d.side, d.amount, outcome)
        result == IF r.raised THEN "raised" ELSE r.value
        call == [symbol |-> d.symbol, side |-> d.side, amount |-> d.amount,
                 outcome |-> outcome, result |-> result,
                 logged |-> IF r.raised THEN "failed" ELSE "success"]
    IN  [ calls  |-> [i \in 1..CallsPerOrder(result) |-> call],
          propagates |-> r.raised /\ ~CaughtByExecutor(r.raised),
          events |-> <<>> ]

NoCall == [symbol |-> NoneVal, side |-> NoneVal, amount |-> 0,
           outcome |-> NoneVal, result |-> NoneVal, logged |-> NoneVal]

\* The consuming loop hands the Executor the next ORDER event of its queue.
ExecutorProcess ==
    /\ eAlive
    /\ executorQ # <<>>
    /\ \E outcome \in PostOutcomes :
         LET x == LiveExecutorProcess(Head(executorQ), outcome) IN
           /\ calls' = calls + Len(x.calls)
           /\ lastCall' = x.calls[Len(x.calls)]
           /\ failedBefore' = \/ failedBefore
                              \/ lastCall.result \in {"raised", "empty"}
                              \/ \E i \in 1..(Len(x.calls) - 1) :
                                    x.calls[i].result \in {"raised", "empty"}
           /\ eAlive' = ~x.propagates
           /\ published' = Counted(x.events)
           /\ deciderQ' = Deliver(deciderQ, x.events, DeciderSubscribed)
           /\ executorQ' = Deliver(Tail(executorQ), x.events, ExecutorSubscribed)
           /\ lastRequest' = OrderRequest(Self(exParams),
                  CreateMarketOrder(Head(executorQ).data.symbol, Head(executorQ).data.side,
                                    Head(executorQ).data.amount, outcome).body, now)
           /\ sent' = sent + Len(x.calls)
    /\ eProcessed' = eProcessed + 1
    /\ UNCHANGED <<params, active, ingesterVars, deciderVars,
                   exParams, exState, now, probe, signed>>

(***************************************************************************)
(* The exchange client, called directly                                    *)
(***************************************************************************)
\* Lines 22-31: EopsLiveExchange(params)
ExchangeConstruct ==
    /\ exState = "new"
    /\ exState' = Constructed(exParams)
    /\ UNCHANGED <<params, active, ingesterVars, busVars, deciderVars, executorVars,
                   exParams, now, lastRequest, sent, probe, signed>>

\* A second passes on the wall clock.
Tick ==
    /\ now < MaxClock
    /\ now' = now + 1
    /\ UNCHANGED <<params, active, ingesterVars, busVars, deciderVars, executorVars,
                   exParams, exState, lastRequest, sent, probe, signed>>

\* Lines 54-64: connect(); whatever the GET ends in other than success is
\* raised to the caller (a RequestException after it was logged).
Connect ==
    /\ exState = "ready"
    /\ sent < MaxRequests
    /\ lastRequest' = ConnectRequest(Self(exParams))
    /\ sent' = sent + 1
    /\ \E outcome \in PostOutcomes : probe' = IF outcome = "ok" THEN "ok" ELSE "raised"
    /\ UNCHANGED <<params, active, ingesterVars, busVars, deciderVars, executorVars,
                   exParams, exState, now, signed>>

\* The arguments of a direct call of create_market_order
OrderSymbols == {"BTC-USD", "ETH-USD"}
OrderSides   == {"buy", "sell"}
OrderAmounts == {1, 2}

\* Lines 66-84: create_market_order(sym, side, amt) called on the client by
\* a caller other than the Executor (nothing is logged by the Executor).
PlaceOrder ==
    /\ exState = "ready"
    /\ sent < MaxRequests
    /\ \E sym \in OrderSymbols, side \in OrderSides, amt \in OrderAmounts,
          outcome \in PostOutcomes :
         LET r == CreateMarketOrder(sym, side, amt, outcome) IN
           /\ lastRequest' = OrderRequest(Self(exParams), r.body, now)
           /\ lastCall' = [symbol |-> sym, side |-> side, amount |-> amt,
                           outcome |-> outcome,
                           result |-> IF r.raised THEN "raised" ELSE r.value,
                           logged |-> NoneVal]
    /\ calls' = calls + 1
    /\ sent' = sent + 1
    /\ UNCHANGED <<params, active, ingesterVars, busVars, deciderVars,
                   eProcessed, eAlive, failedBefore,
                   exParams, exState, now, probe, signed>>

\* The arguments of a direct call of _get_auth_headers
SignMethods == { <<"G", "E", "T">>, <<"g", "e", "t">>,
                 <<"P", "O", "S", "T">>, <<"p", "o", "s", "t">> }
SignPaths   == {ProbePath, OrderPath, OrderPath \o "/"}
SignBodies  == {"", "/", "{}", "{\"side\": \"buy\"}"}

NoSigned == [method |-> <<>>, path |-> "", body_str |-> "", at |-> 0,
             headers |-> NoHeaders]

\* Lines 33-52: _get_auth_headers(method, path, body_str) called on the client
SignRequest ==
    /\ exState = "ready"
    /\ \E m \in SignMethods, p \in SignPaths, b \in SignBodies :
         signed' = [method |-> m, path |-> p, body_str |-> b, at |-> now,
                    headers |-> GetAuthHeaders(Self(exParams), m, p, b, now)]
    /\ UNCHANGED <<params, active, ingesterVars, busVars, deciderVars, executorVars,
                   exParams, exState, now, lastRequest, sent, probe>>

(***************************************************************************)
(* The system                                                              *)
(***************************************************************************)
\* The pipeline after the components were constructed
PipelineInit ==
    /\ params \in ParamChoices
    /\ active = TRUE
    /\ pc = "start"
    /\ wsOpen = FALSE
    /\ connSubs = 0
    /\ msg = NoMsg
    /\ msgStale = FALSE
    /\ wsPublished = <<>>
    /\ wsLog = "none"
    /\ delivered = 0
    /\ sub_msg = <<>>
    /\ consecFails = 0
    /\ subsAfterClear = 0
    /\ tickersSeen = 0
    /\ published = [k \in EventKinds |-> 0]
    /\ deciderQ = <<>>
    /\ executorQ = <<>>
    /\ tick_count = 0
    /\ buy_interval = Get(params, "buy_interval_ticks", DefaultBuyIntervalTicks)
    /\ buy_amount = Get(params, "buy_amount", DefaultBuyAmount)
    /\ symbol = Get(params, "symbol", NoneVal)
    /\ dProcessed = 0
    /\ dAlive = TRUE
    /\ eProcessed = 0
    /\ eAlive = TRUE
    /\ calls = 0
    /\ lastCall = NoCall
    /\ failedBefore = FALSE

\* The exchange client before it was used; the clock reads 9, so that the
\* length of str(int(time.time())) changes as seconds pass.
ExchangeUnused ==
    /\ now = 9
    /\ lastRequest = NoRequest
    /\ sent = 0
    /\ probe = "none"
    /\ signed = NoSigned

\* The strategy runs with the exchange client of its context constructed.
Init ==
    /\ PipelineInit
    /\ exParams = FullCreds
    /\ exState = Constructed(exParams)
    /\ ExchangeUnused

Next ==
    \/ Start
    \/ LoopCheck
    \/ ConnectOk
    \/ ConnectFail
    \/ SendSubscribe
    \/ SendFail
    \/ RecvMessage
    \/ RecvClosedOk
    \/ RecvError
    \/ LoopBodyCheck
    \/ ProcessMessage
    \/ LoopBack
    \/ BackoffDone
    \/ Deactivate
    \/ DeciderProcess
    \/ ExecutorProcess

Spec == Init /\ [][Next]_vars

\* The steps the updater's own thread takes.  An await of the handshake, of
\* the send and of the sleep ends; the await of the next inbound message
\* (RecvMessage, RecvClosedOk, RecvError) need not.
IngesterStep ==
    \/ Start
    \/ LoopCheck
    \/ ConnectOk
    \/ ConnectFail
    \/ SendSubscribe
    \/ SendFail
    \/ LoopBodyCheck
    \/ ProcessMessage
    \/ LoopBack
    \/ BackoffDone

\* The updater reads ws_url, jwt and symbol only; the behaviours under
\* fairness are explored for one complete configuration and one without ws_url.
LiveParamChoices == {Param(2, 2), Without(Param(1, 1), "ws_url")}

LiveInit == Init /\ params \in LiveParamChoices

LiveSpec == LiveInit /\ [][Next]_vars /\ WF_vars(IngesterStep)

\* The exchange client on its own: it is constructed from whatever
\* EXCHANGE_PARAMS the host hands over and then called directly, while the
\* clock advances; the pipeline stands still.
ExchangeInit ==
    /\ PipelineInit
    /\ params = Param(1, 1)
    /\ exParams \in CredChoices
    /\ exState = "new"
    /\ ExchangeUnused

ExchangeNext ==
    \/ ExchangeConstruct
    \/ Tick
    \/ Connect
    \/ PlaceOrder

ExchangeSpec == ExchangeInit /\ [][ExchangeNext]_vars

\* _get_auth_headers on its own: the client is constructed and the signing
\* function is applied to arguments drawn from small sets at various times.
SignNext ==
    \/ ExchangeConstruct
    \/ Tick
    \/ SignRequest

SignSpec == ExchangeInit /\ [][SignNext]_vars

(***************************************************************************)
(* Properties                                                              *)
(***************************************************************************)
ConfiguredInterval == Get(params, "buy_interval_ticks", DefaultBuyIntervalTicks)
ConfiguredAmount   == Get(params, "buy_amount", DefaultBuyAmount)
ConfiguredSymbol   == Get(params, "symbol", NoneVal)

\* C1: with an interval of at least 1, after N MARKET events were passed to
\* DcaDecider.process there are exactly N \div interval ORDER events on the
\* bus; the event with ordinal n puts one ORDER on the bus when n is a
\* multiple of the interval and nothing otherwise; the ORDER carries the
\* configured symbol, side "buy" and the configured amount, whatever the
\* price of the MARKET event.
C1_OrdersEveryInterval ==
    /\ [](ConfiguredInterval >= 1 =>
            published["ORDER"] = dProcessed \div ConfiguredInterval)
    /\ [][ (dProcessed' = dProcessed + 1 /\ ConfiguredInterval >= 1) =>
             IF dProcessed' % ConfiguredInterval = 0
             THEN /\ executorQ' = Append(executorQ,
                        [type |-> "ORDER",
                         data |-> [symbol |-> ConfiguredSymbol, side |-> "buy",
                                   amount |-> ConfiguredAmount]])
                  /\ published'["ORDER"] = published["ORDER"] + 1
             ELSE /\ executorQ' = executorQ
                  /\ published' = published ]_vars

\* The spec's scenario: interval 3, amount 0.02, three MARKET events, one ORDER.
C1_Witness ==
    /\ ConfiguredInterval = 3
    /\ ConfiguredAmount = 2
    /\ dProcessed = 3
    /\ published["ORDER"] = 1

\* C2: the number of create_market_order invocations equals the number of
\* ORDER events the Executor processed; processing one ORDER event makes
\* exactly one invocation, with that event's symbol, side and amount, however
\* the call ended, and puts nothing on the bus.
C2_OneCallPerOrder ==
    /\ [](calls = eProcessed)
    /\ [][ eProcessed' # eProcessed =>
             /\ eProcessed' = eProcessed + 1
             /\ calls' = calls + 1
             /\ lastCall'.symbol = Head(executorQ).data.symbol
             /\ lastCall'.side = Head(executorQ).data.side
             /\ lastCall'.amount = Head(executorQ).data.amount
             /\ published' = published
             /\ deciderQ' = deciderQ
             /\ executorQ' = Tail(executorQ) ]_vars

\* Three orders were processed; an earlier call failed and the last returned {}.
C2_Witness ==
    /\ eProcessed = 3
    /\ failedBefore
    /\ lastCall.result = "empty"

\* C3: an exception or a failure of create_market_order never leaves
\* LiveExecutor.process: the consuming loop stays alive, and an ORDER event
\* waiting in the Executor's queue can be processed, whatever earlier calls
\* ended in.
C3_ExecutorSurvivesFailure ==
    /\ eAlive
    /\ (executorQ # <<>> => ENABLED ExecutorProcess)

\* A call was made after an earlier call failed, and the earlier or the
\* later one raised.
C3_Witness ==
    /\ failedBefore
    /\ calls >= 2
    /\ lastCall.result = "raised"

\* C10: a create_market_order call that ended in a transport or HTTP failure
\* (connection error, timeout, non-2xx status, unusable response body) did
\* not raise and returned the empty result; a call returned a non-empty
\* acknowledgement only when the POST succeeded.  (The client keeps no state
\* that a failed call changes: the witness is a call made after a failed one.)
C10_ClientNeverRaisesOnTransportFailure ==
    /\ (lastCall.outcome \in {"ConnectionError", "Timeout", "HTTPError", "JSONDecodeError"}
          => lastCall.result = "empty")
    /\ (lastCall.result = "ack" => lastCall.outcome = "ok")

\* A call answered with a non-2xx status returned {} after an earlier failure.
C10_Witness ==
    /\ lastCall.outcome = "HTTPError"
    /\ lastCall.result = "empty"
    /\ failedBefore

ParamsComplete == {"ws_url", "jwt", "symbol"} \subseteq DOMAIN params

\* C4: while the flag stays set the retry loop does not end: _ws_loop has
\* returned only if the flag was cleared (or a required parameter was
\* missing, so that the loop was never entered), and after every failure
\* (the backoff state, reached from a failed attempt, a failed send and an
\* exception in the receive loop) and every end of a connection the updater
\* makes another connection attempt unless the flag is cleared first,
\* however many failures came before.
C4_RetryNeverGivesUp ==
    /\ []((ParamsComplete /\ pc = "done") => ~active)
    /\ ((active /\ pc \in {"backoff", "check"}) ~> (pc = "connecting" \/ ~active))

\* Another attempt is under way after MaxFails consecutive failures.
C4_Witness ==
    /\ active
    /\ pc = "connecting"
    /\ consecFails = MaxFails

\* Steps of the updater, told by what they change.
NewAttempt     == pc # "connecting" /\ pc' = "connecting"
SubscribeSent  == connSubs' = connSubs + 1
WsPublishes    == published'["MARKET"] # published["MARKET"]
                  \/ published'["FILL"] # published["FILL"]
HandlerReturns == pc = "processing" /\ pc' = "processed"

\* C5 as stated: once the flag is cleared the updater starts no connection
\* attempt, sends no subscribe message, publishes nothing for a message
\* received after the flag was cleared, and leaves the receive loop and the
\* retry loop instead of entering another connect cycle.
C5_AsStated ==
    [][ /\ (~active => ~NewAttempt)
        /\ (~active => ~SubscribeSent)
        /\ (WsPublishes => ~msgStale)
        /\ ((~active /\ pc = "gotmsg" /\ pc' # pc) => pc' = "check")
        /\ ((~active /\ pc = "check" /\ pc' # pc) => pc' = "done") ]_vars

\* C5 as amended: once the flag is cleared the updater starts no connection
\* attempt and publishes nothing for a message received after the flag was
\* cleared; at the next message it leaves the receive loop (closing the
\* websocket) and at the next loop check it leaves the retry loop, also after
\* a backoff; an attempt that was under way when the flag was cleared is
\* still completed, so that at most one subscribe message is sent afterwards.
C5_NoNewCycleAfterClear ==
    /\ [][ /\ (~active => ~NewAttempt)
           /\ (WsPublishes => ~msgStale)
           /\ ((~active /\ pc = "gotmsg" /\ pc' # pc) => (pc' = "check" /\ ~wsOpen'))
           /\ ((~active /\ pc = "check" /\ pc' # pc) => pc' = "done")
           /\ ((~active /\ pc = "backoff" /\ pc' # pc) => pc' = "check") ]_vars
    /\ [](subsAfterClear <= 1)

\* The flag was cleared during an attempt, the subscribe message went out
\* afterwards, and the updater has returned.
C5_Witness ==
    /\ pc = "done"
    /\ subsAfterClear = 1
    /\ delivered >= 1

\* C6: the subscribed state (from the handshake to the end of the with
\* block) is entered only from a connection attempt whose handshake
\* succeeded; at most one subscribe message is sent on a connection, exactly
\* one, with the args tickers:<symbol> and private:orders, before the receive
\* loop runs; and an inbound message is received and handled only on a
\* connection whose subscribe message was sent.
InWithBlock(p) == p \in {"connected", "receiving", "gotmsg", "processing", "processed"}
InReceiveLoop(p) == p \in {"receiving", "gotmsg", "processing", "processed"}

C6_SubscribeOncePerConnection ==
    /\ [][ (~InWithBlock(pc) /\ InWithBlock(pc')) =>
             (pc = "connecting" /\ pc' = "connected" /\ wsOpen' /\ connSubs' = 0) ]_vars
    /\ [][ (~InReceiveLoop(pc) /\ InReceiveLoop(pc')) =>
             (pc = "connected" /\ SubscribeSent) ]_vars
    /\ [](connSubs <= 1)
    /\ [](InReceiveLoop(pc) =>
            /\ connSubs = 1
            /\ wsOpen
            /\ sub_msg = <<"tickers:BTC-USD", "private:orders">>)
    /\ [][ (pc' = "gotmsg" \/ HandlerReturns) => connSubs = 1 ]_vars

\* The second inbound message was handled on a subscribed connection.
C6_Witness ==
    /\ pc = "processed"
    /\ connSubs = 1
    /\ wsPublished # <<>>
    /\ delivered = 2

\* The shapes of section 6: an OrderUpdate whose data is a list of order
\* objects (or is left out), a Ticker that holds a quote.
WellShapedBatch(m) ==
    /\ m.kind = "object"
    /\ m.event_type = "OrderUpdate"
    /\ m.data \in {"list", Absent}
    /\ \A i \in 1..Len(m.orders) : m.orders[i].object

WellShapedTicker(m) ==
    /\ m.kind = "object"
    /\ m.event_type = "Ticker"
    /\ m.data = "quote"

\* The FILL events a batch calls for: one for each order whose status is
\* filled or partially_filled, carrying that order, in batch order.
FillsOf(orders) ==
    LET sel == SelectSeq(orders,
                         LAMBDA o : o.status = "filled" \/ o.status = "partially_filled")
    IN  [i \in 1..Len(sel) |-> [type |-> "FILL", data |-> sel[i]]]

\* C7: handling an OrderUpdate message (a batch of order objects) publishes
\* exactly one FILL event for each order of the batch whose status is filled
\* or partially_filled, carrying that order, in batch order, and no other
\* event; the FILL count grows by the number of such orders.
C7_OneFillPerFilledOrder ==
    [][ (HandlerReturns /\ WellShapedBatch(msg)) =>
          /\ wsPublished' = FillsOf(msg.orders)
          /\ published'["FILL"] = published["FILL"] + Len(FillsOf(msg.orders))
          /\ published'["MARKET"] = published["MARKET"]
          /\ published'["ORDER"] = published["ORDER"]
          /\ deciderQ' = deciderQ
          /\ executorQ' = executorQ ]_vars

\* The spec's batch: statuses filled, open give the one FILL of the first order.
C7_Witness ==
    /\ pc = "processed"
    /\ msg.event_type = "OrderUpdate"
    /\ Len(msg.orders) = 2
    /\ msg.orders[1] = [object |-> TRUE, status |-> "filled"]
    /\ msg.orders[2] = [object |-> TRUE, status |-> "open"]
    /\ wsPublished = <<[type |-> "FILL", data |-> [object |-> TRUE, status |-> "filled"]]>>

\* C8: handling a Ticker message that holds a quote publishes exactly one
\* MARKET event whose data is that quote, queued for the Decider, and no FILL;
\* handling a message of an unrecognized event_type publishes nothing; the
\* number of MARKET events on the bus equals the number of Ticker messages
\* handled.
C8_OneMarketPerTicker ==
    /\ [](published["MARKET"] = tickersSeen)
    /\ [][ (HandlerReturns /\ WellShapedTicker(msg)) =>
             /\ wsPublished' = <<[type |-> "MARKET", data |-> msg.quote]>>
             /\ deciderQ' = Append(deciderQ, [type |-> "MARKET", data |-> msg.quote])
             /\ published'["MARKET"] = published["MARKET"] + 1
             /\ published'["FILL"] = published["FILL"]
             /\ published'["ORDER"] = published["ORDER"] ]_vars
    /\ [][ (HandlerReturns /\ msg.kind = "object"
                           /\ msg.event_type \notin {"Ticker", "OrderUpdate"}) =>
             /\ wsPublished' = <<>>
             /\ published' = published
             /\ deciderQ' = deciderQ ]_vars

\* Two Ticker messages were handled; the second quote is the last one published.
C8_Witness ==
    /\ pc = "processed"
    /\ msg.event_type = "Ticker"
    /\ msg.data = "quote"
    /\ msg.quote.price = 101
    /\ wsPublished = <<[type |-> "MARKET", data |-> [price |-> 101]]>>
    /\ tickersSeen = 2

\* A message that does not parse, or parses to something else than one of
\* the shapes above while claiming to be a Ticker or an OrderUpdate.
Malformed(m) ==
    \/ m.kind \in {"text", "json"}
    \/ /\ m.kind = "object"
       /\ m.event_type = "Ticker"
       /\ ~WellShapedTicker(m)
    \/ /\ m.kind = "object"
       /\ m.event_type = "OrderUpdate"
       /\ ~WellShapedBatch(m)

\* C9: handling a malformed message publishes no event, raises nothing out
\* of the handler, leaves the websocket open and the loop receiving, so that
\* the next message is received on the same connection.
C9_MalformedDiscarded ==
    [][ (pc = "processing" /\ pc' # pc /\ Malformed(msg)) =>
          /\ pc' = "processed"
          /\ wsOpen'
          /\ wsPublished' = <<>>
          /\ published' = published
          /\ deciderQ' = deciderQ ]_vars

\* What C9 leaves when the partly handled batches are set aside: a message
\* that makes the handler raise before it put anything publishes no event
\* and leaves the connection open and the loop receiving.
MalformedBeforeAnyPut ==
    [][ (pc = "processing" /\ pc' # pc /\ Malformed(msg)
           /\ (msg.event_type = "OrderUpdate" /\ msg.data = "list"
                 => ~msg.orders[1].object)) =>
          /\ pc' = "processed"
          /\ wsOpen'
          /\ wsLog' \in {"warning", "error"}
          /\ wsPublished' = <<>>
          /\ published' = published ]_vars

\* C11: a success outcome is recorded for a create_market_order call only
\* when the call returned a non-empty acknowledgement; a call that returned
\* the empty result is not recorded as successfully sent.
C11_SuccessOnlyForAck ==
    /\ (lastCall.logged = "success" => lastCall.result = "ack")
    /\ (lastCall.result = "empty" => lastCall.logged # "success")

AuthHeaderNames == {"Content-Type", "X-API-KEY", "X-API-TIMESTAMP", "X-API-SIGN"}

\* The request r carries the authentication headers of the client, and its
\* signature was computed over its own timestamp header, method, path and data.
SignedAsSent(r) ==
    /\ DOMAIN r.headers = AuthHeaderNames
    /\ r.headers["X-API-KEY"] = exParams.api_key
    /\ r.headers["X-API-SIGN"] =
         [hmac_key |-> exParams.secret_key,
          message  |-> r.headers["X-API-TIMESTAMP"] \o r.method \o r.path \o r.data]

\* The decimal numeral of the clock's reading (the clock stays below 100)
ClockReading ==
    IF now < 10 THEN Digit[now + 1]
    ELSE Digit[(now \div 10) + 1] \o Digit[(now % 10) + 1]

\* C12: every request the client puts on the wire, the probe GET as well as
\* the order POST, carries the authentication headers with a signature
\* computed over the timestamp header, the method, the path and the body
\* that are sent; and the timestamp of a request is the reading of the clock
\* when the request is made.
C12_EveryCallSigned ==
    /\ [](lastRequest.method # NoneVal => SignedAsSent(lastRequest))
    /\ [][ sent' # sent =>
             /\ DOMAIN lastRequest'.headers = AuthHeaderNames
             /\ lastRequest'.headers["X-API-TIMESTAMP"] = ClockReading ]_vars

\* What holds of C12: the order POST is signed over what it sends, with the
\* clock's reading, and goes to the orders endpoint with the body that
\* json.dumps made of the order.
OrderPostSigned ==
    /\ [](lastRequest.method = "POST" =>
            /\ SignedAsSent(lastRequest)
            /\ lastRequest.path = "/api/v1/trade/orders"
            /\ lastRequest.url = "https://x/api/v1/trade/orders"
            /\ lastRequest.data =
                 "{\"instrument_id\": \"" \o lastCall.symbol
                 \o "\", \"side\": \"" \o lastCall.side
                 \o "\", \"order_type\": \"market\", \"quantity\": \""
                 \o (IF lastCall.amount = 1 THEN "0.01" ELSE "0.02") \o "\"}")
    /\ [][ (sent' # sent /\ lastRequest'.method = "POST") =>
             lastRequest'.headers["X-API-TIMESTAMP"] = ClockReading ]_vars

\* C13: a missing required parameter is fatal at construction for every
\* component: an exchange client without base_url, api_key or secret_key is
\* never ready, an updater without ws_url, jwt or symbol never runs its loop,
\* and a Decider without symbol is never alive to count a tick; no ORDER
\* carries an absent symbol and no order is placed with one.
C13_MissingParamIsFatal ==
    /\ ({"base_url", "api_key", "secret_key"} \subseteq DOMAIN exParams
          \/ exState # "ready")
    /\ (ParamsComplete \/ pc = "start")
    /\ ("symbol" \in DOMAIN params \/ ~dAlive)
    /\ ("symbol" \in DOMAIN params \/ (tick_count = 0 /\ calls = 0))

\* What holds of C13: an exchange client is ready only with its three
\* credentials present and non-empty, and sends requests only when ready.
ExchangeNeedsCredentials ==
    /\ (exState = "ready" =>
          /\ {"base_url", "api_key", "secret_key"} \subseteq DOMAIN exParams
          /\ exParams.base_url # "" /\ exParams.api_key # "" /\ exParams.secret_key # "")
    /\ (sent > 0 => exState = "ready")

\* What holds of C13: an updater that lacks a parameter returns without a
\* connection attempt, and then no tick is counted and no order is placed.
NoAttemptWithoutParams ==
    ~ParamsComplete =>
      /\ pc \in {"start", "done"}
      /\ ~wsOpen
      /\ tick_count = 0
      /\ published["ORDER"] = 0
      /\ calls = 0

\* C14: with buy_interval_ticks configured as 0 the Decider fails before any
\* MARKET event is processed: no call of process ends in a division by zero
\* (the consuming loop is never left by that exception) and no tick is
\* counted under a zero interval.
C14_ZeroIntervalFailsFast ==
    ConfiguredInterval = 0 =>
      /\ dProcessed = 0
      /\ tick_count = 0
      /\ dAlive

\* C15: while the flag stays set, each failed connection attempt is counted
\* and leads to the backoff sleep with no connection open; the sleep ends
\* once, in the loop test, from which exactly one new attempt starts, and an
\* attempt starts from nowhere else: k failures make k sleeps and k
\* reconnect attempts.  The attempt that succeeds opens the connection, the
\* subscribe message is sent on it again, and a Ticker message handled on it
\* puts a MARKET event on the bus as before.
C15_ReconnectAfterFailures ==
    /\ [][ (pc = "connecting" /\ pc' \notin {"connecting", "connected"}) =>
             /\ pc' = "backoff"
             /\ ~wsOpen'
             /\ consecFails' = (IF consecFails < MaxFails THEN consecFails + 1
                                ELSE MaxFails) ]_vars
    /\ [][ (pc = "backoff" /\ pc' # pc) =>
             (pc' = "check" /\ consecFails' = consecFails) ]_vars
    /\ [][ (pc = "check" /\ pc' # pc /\ active) =>
             (pc' = "connecting" /\ consecFails' = consecFails) ]_vars
    /\ [][ (pc # "connecting" /\ pc' = "connecting") => pc = "check" ]_vars
    /\ [][ (pc = "connecting" /\ pc' = "connected") =>
             (wsOpen' /\ connSubs' = 0 /\ consecFails' = consecFails) ]_vars
    /\ [][ (pc = "connected" /\ pc' = "receiving") =>
             /\ connSubs' = 1
             /\ sub_msg' = <<"tickers:BTC-USD", "private:orders">>
             /\ consecFails' = consecFails ]_vars
    /\ [][ (HandlerReturns /\ WellShapedTicker(msg)) =>
             /\ published'["MARKET"] = published["MARKET"] + 1
             /\ deciderQ' = Append(deciderQ, [type |-> "MARKET", data |-> msg.quote]) ]_vars

\* Three failures in a row, then the fourth attempt succeeded and the
\* subscribe message was sent on the new connection, with the flag set.
C15_Witness ==
    /\ active
    /\ pc = "receiving"
    /\ wsOpen
    /\ connSubs = 1
    /\ consecFails = 3

\* C17: whenever a connection ends or an attempt fails while the flag is set
\* (a failed handshake, a failed send, an abnormal drop, an exception in the
\* receive loop, or the server closing the stream so that the receive loop
\* ends), the updater next sleeps the fixed delay, once, before the loop
\* test from which the next attempt starts; no attempt starts from a state
\* in which a connection has just ended without the sleep.
C17_BackoffBeforeEveryReconnect ==
    /\ [][ (active /\ wsOpen /\ ~wsOpen') => pc' = "backoff" ]_vars
    /\ [][ (active /\ pc = "connecting" /\ pc' \notin {"connecting", "connected"}) =>
             pc' = "backoff" ]_vars
    /\ [][ (pc = "backoff" /\ pc' # pc) => pc' = "check" ]_vars

\* What holds of C17: every failure (a failed handshake, a failed send, an
\* abnormal drop, an exception in the receive loop) is followed by one sleep.
BackoffAfterEveryFailure ==
    /\ [][ (wsOpen /\ ~wsOpen' /\ pc' # "check") => pc' = "backoff" ]_vars
    /\ [][ (pc = "connecting" /\ pc' \notin {"connecting", "connected"}) =>
             pc' = "backoff" ]_vars
    /\ [][ (pc = "backoff" /\ pc' # pc) => pc' = "check" ]_vars

\* C18: once the flag is cleared the updater eventually returns from
\* _ws_loop, with its own steps scheduled fairly and whatever the exchange
\* does or does not send: until it has returned it always has a step of its
\* own to take, never waiting for the exchange.
C18_TerminatesAfterClear ==
    /\ []((~active /\ pc # "done") => ENABLED IngesterStep)
    /\ ((~active) ~> (pc = "done"))

\* What holds of C18: with the flag cleared the updater returns or comes to
\* await the next inbound message, and only there does it lack a step of its own.
TerminatesOrAwaitsMessage ==
    /\ (~active) ~> (pc \in {"done", "receiving"})
    /\ []((~active /\ pc \notin {"done", "receiving"}) => ENABLED IngesterStep)

\* C19: the websocket is open only inside the with block: in the backoff
\* sleep, at the loop test, during a connection attempt and after _ws_loop
\* has returned no connection is open; a connection is opened only by a
\* handshake that starts with none open, so at most one is open at a time;
\* and every step that leaves the with block (break, end of the stream,
\* exception) closes it.
C19_ConnectionClosedOutsideWith ==
    /\ [](wsOpen <=> InWithBlock(pc))
    /\ [](pc \in {"start", "check", "connecting", "backoff", "done"} => ~wsOpen)
    /\ [][ (~wsOpen /\ wsOpen') => (pc = "connecting" /\ pc' = "connected") ]_vars
    /\ [][ (InWithBlock(pc) /\ ~InWithBlock(pc')) => (wsOpen /\ ~wsOpen') ]_vars

\* A connection that had delivered a message ended in an exception, the
\* flag was cleared and the updater has returned: nothing is left open.
C19_Witness ==
    /\ pc = "done"
    /\ ~active
    /\ ~wsOpen
    /\ consecFails >= 1
    /\ delivered >= 1

\* C20: tick_count equals the number of MARKET events passed to
\* DcaDecider.process and never decreases; a step changes it only by
\* processing the MARKET event at the head of the Decider's queue, by +1;
\* steps of the updater (connecting, failing, reconnecting, handling Ticker
\* and OrderUpdate messages), of the Executor (whatever the call ended in)
\* and of the host leave it unchanged.
C20_TickCountOnlyCounts ==
    /\ [](tick_count = dProcessed)
    /\ [][ tick_count' >= tick_count ]_vars
    /\ [][ tick_count' # tick_count =>
             /\ tick_count' = tick_count + 1
             /\ dProcessed' = dProcessed + 1
             /\ deciderQ # <<>>
             /\ Head(deciderQ).type = "MARKET"
             /\ pc' = pc
             /\ eProcessed' = eProcessed ]_vars
    /\ [][ (pc' # pc \/ wsOpen' # wsOpen \/ active' # active
              \/ eProcessed' # eProcessed \/ calls' # calls
              \/ published'["FILL"] # published["FILL"]
              \/ published'["MARKET"] # published["MARKET"])
             => tick_count' = tick_count ]_vars

\* Two ticks are counted, an order went out with an empty result, a FILL
\* was published, and the updater is reconnecting after a failure.
C20_Witness ==
    /\ tick_count = 2
    /\ lastCall.result = "empty"
    /\ published["FILL"] >= 1
    /\ pc = "connecting"
    /\ consecFails >= 1

\* The argument tuples of _get_auth_headers: the three arguments and the
\* second at which the call is made.
SignInputs ==
    [method : SignMethods, path : SignPaths, body_str : SignBodies, at : 9..MaxClock]

InputOf(s) == [method |-> s.method, path |-> s.path, body_str |-> s.body_str, at |-> s.at]

\* The decimal numeral of a reading of the clock (below 100)
Numeral(n) ==
    IF n < 10 THEN Digit[n + 1]
    ELSE Digit[(n \div 10) + 1] \o Digit[(n % 10) + 1]

\* The method name in capitals
Canonical(m) == IF m \in {<<"G", "E", "T">>, <<"g", "e", "t">>} THEN "GET" ELSE "POST"

\* What the client signs for the tuple t, and the digest it sends
PreHashOf(t) == PreHash(Str(t.at), t.method, t.path, t.body_str)
DigestOf(t)  == GetAuthHeaders(Self(exParams), t.method, t.path, t.body_str, t.at)["X-API-SIGN"]

\* The number of fields in which the tuples t and u differ
FieldsApart(t, u) ==
    Cardinality({f \in {"method", "path", "body_str", "at"} : t[f] # u[f]})

\* C16 as stated: the digest of a call is the digest of its tuple, whenever
\* it is computed; the pre-hash string is the timestamp, the method in
\* capitals, the path and the body, in this order; and a tuple that differs
\* from the one signed in one field, be it a method in another letter case,
\* has another pre-hash string and another digest.
C16_AsStated ==
    signed.method # <<>> =>
      /\ signed.headers["X-API-SIGN"] = DigestOf(InputOf(signed))
      /\ signed.headers["X-API-SIGN"].message =
           Numeral(signed.at) \o Canonical(signed.method) \o signed.path \o signed.body_str
      /\ \A t \in SignInputs :
           FieldsApart(t, InputOf(signed)) = 1 =>
             /\ PreHashOf(t) # signed.headers["X-API-SIGN"].message
             /\ DigestOf(t) # signed.headers["X-API-SIGN"]

\* C16 as amended: as above, but the method counts in capitals: a tuple that
\* differs from the one signed in one field has another pre-hash string and
\* another digest unless the field is the method and the two methods differ
\* in letter case only, and then it has the same pre-hash string and the
\* same digest.
C16_DeterministicUpToMethodCase ==
    signed.method # <<>> =>
      /\ signed.headers["X-API-SIGN"] = DigestOf(InputOf(signed))
      /\ signed.headers["X-API-SIGN"].hmac_key = "secret"
      /\ signed.headers["X-API-SIGN"].message =
           Numeral(signed.at) \o Canonical(signed.method) \o signed.path \o signed.body_str
      /\ signed.headers["X-API-TIMESTAMP"] = Numeral(signed.at)
      /\ \A t \in SignInputs :
           FieldsApart(t, InputOf(signed)) = 1 =>
             IF Canonical(t.method) = Canonical(signed.method) /\ t.method # signed.method
             THEN /\ PreHashOf(t) = signed.headers["X-API-SIGN"].message
                  /\ DigestOf(t) = signed.headers["X-API-SIGN"]
             ELSE /\ PreHashOf(t) # signed.headers["X-API-SIGN"].message
                  /\ DigestOf(t) # signed.headers["X-API-SIGN"]

\* At second 10 the client signed a lower-case get of the orders path with
\* the body {}.
C16_Witness ==
    /\ signed.method = <<"g", "e", "t">>
    /\ signed.at = 10
    /\ signed.headers["X-API-SIGN"] =
         [hmac_key |-> "secret", message |-> "10GET/api/v1/trade/orders{}"]

====
